---------------------------- MODULE Spec2Model ----------------------------
(***************************************************************************)
(* A model of the rendering and playback engine of Ascii-Me                *)
(* (src/Ascii_art/core.py, src/Ascii_art/__main__.py).                     *)
(*                                                                         *)
(* The module holds one specification per component:                       *)
(*   Spec       play_ascii_animation, the timed display loop               *)
(*   SpecStyle  set_style and pixel_to_ascii_color                         *)
(*   SpecScale  scale_image                                                *)
(*   SpecGif    the per-frame duration derivation of gif_to_ascii_frames   *)
(*   SpecBg     remove_background                                          *)
(* Every specification fixes the variables of the other components.        *)
(*                                                                         *)
(* Time is counted in whole milliseconds: a duration of d ms is the        *)
(* Python float d / 1000.0 seconds.  Escape sequences are written with the *)
(* three letters ESC for the byte \033.                                    *)
(***************************************************************************)
EXTENDS Integers, Sequences, FiniteSets, TLC

VARIABLES
    \* ---- play_ascii_animation
    pc,            \* position of the controlling context inside the function
    frames,        \* the argument: a sequence of durations (ms), one per frame
    idx,           \* position of the for loop in frames (0: not started)
    start_time,    \* perf_counter() taken once before the loop
    t,             \* accumulated animation time
    target_time,   \* start_time + t of the frame being waited for
    clock,         \* the monotonic clock, time.perf_counter()
    out,           \* what was written to the terminal, one record per print
    outcome,       \* how the function was left
    resizeSignal,  \* the resize-pending flag of the terminal size monitor
    \* ---- set_style, pixel_to_ascii_color
    style_name,    \* the last argument of set_style ("" before the first call)
    ASCIICHARS,    \* the global set_style assigns (<<>>: not assigned yet)
    pixel,         \* the last argument of pixel_to_ascii_color
    glyph,         \* what pixel_to_ascii_color did with it
    \* ---- scale_image
    image_size,    \* <<width, height>> of the source image
    max_size,      \* <<max_width, max_height>>
    target_size,   \* <<target_width, target_height>> handed to image.resize
    second_pass,   \* whether the refit-by-height branch ran
    scaled,        \* scale_image has run
    \* ---- gif_to_ascii_frames
    gif_info,      \* per frame, frame.info restricted to the key 'duration'
    ascii_frames,  \* the durations (ms) of the pairs appended so far
    total_duration,
    \* ---- remove_background
    bg_image,      \* the pixels of the image argument, row by row
    bg_mode,       \* its mode, "RGB" or "RGBA"
    bg_color,
    threshold,
    bg_result,     \* the pixels of the returned image
    bg_done

playVars  == <<pc, frames, idx, start_time, t, target_time, clock, out,
               outcome, resizeSignal>>
styleVars == <<style_name, ASCIICHARS, pixel, glyph>>
scaleVars == <<image_size, max_size, target_size, second_pass, scaled>>
gifVars   == <<gif_info, ascii_frames, total_duration>>
bgVars    == <<bg_image, bg_mode, bg_color, threshold, bg_result, bg_done>>
vars      == <<playVars, styleVars, scaleVars, gifVars, bgVars>>

\* What a step of one component leaves alone: the other components.
notPlay  == <<styleVars, scaleVars, gifVars, bgVars>>
notStyle == <<playVars, scaleVars, gifVars, bgVars>>
notScale == <<playVars, styleVars, gifVars, bgVars>>
notGif   == <<playVars, styleVars, scaleVars, bgVars>>
notBg    == <<playVars, styleVars, scaleVars, gifVars>>

Min(a, b) == IF a < b THEN a ELSE b
Max(a, b) == IF a > b THEN a ELSE b
Abs(a)    == IF a < 0 THEN -a ELSE a

(***************************************************************************)
(* int(x) of a non-negative float x whose exact value is num / den.  For a *)
(* fractional exact value the float is far from any integer and int(x) is  *)
(* the floor.  When the exact value is an integer q the rounding of the    *)
(* intermediate float operations decides between q and q - 1 (for example  *)
(* int(25 * (1/3) * 0.48) is 3 while 25 * 1 * 12 / (3 * 25) is 4), so both *)
(* are outcomes.                                                           *)
(***************************************************************************)
IntOfFloat(num, den) ==
    LET q == num \div den
    IN  IF num % den = 0 /\ q > 0 THEN {q - 1, q} ELSE {q}

(***************************************************************************)
(* Values the variables of a component hold while another one is checked.  *)
(***************************************************************************)
PlayIdle ==
    /\ pc = "idle" /\ frames = <<>> /\ idx = 0 /\ start_time = 0 /\ t = 0
    /\ target_time = 0 /\ clock = 0 /\ out = <<>> /\ outcome = "none"
    /\ resizeSignal = FALSE

(***************************************************************************)
(*                        play_ascii_animation                             *)
(***************************************************************************)

\* Bounds of the model of the player.
MaxFrames == 3
MaxWrites == 5
MaxClock  == 16    \* the clock stops at MaxClock * 20 ms

\* Durations gif_to_ascii_frames hands to the player: never under 60 ms.
FrameDurations == {60, 100}

\* How far the clock moves during one time.sleep(0.001) or between two
\* steps of the function: the scheduler may return late.
Jumps == {20, 80}

RECURSIVE SeqsUpTo(_, _)
SeqsUpTo(S, n) ==
    IF n = 0 THEN {<<>>}
    ELSE LET shorter == SeqsUpTo(S, n - 1)
         IN  shorter \cup {Append(s, x) : s \in {u \in shorter : Len(u) = n - 1}, x \in S}

Range(s) == {s[i] : i \in DOMAIN s}

\* The terminal-control sequences of the docstring, core.py lines 319-325.
HIDE_CURSOR == "ESC[?25l"
SHOW_CURSOR == "ESC[?25h"
ESCAPE_HOME == "ESC[0;0H"
RESET       == "ESC[0m"
CLEAR       == "ESC[2J"
HOME        == "ESC[H"

\* One print: the control sequences and text it writes, in order, and the
\* number of the frame it carries (0: none).
Written(text, frame) == [text |-> text, frame |-> frame]

\* The frames written so far, in the order of their writes.
RECURSIVE FramesOf(_)
FramesOf(o) ==
    IF o = <<>> THEN <<>>
    ELSE IF Head(o).frame > 0 THEN <<Head(o).frame>> \o FramesOf(Tail(o))
         ELSE FramesOf(Tail(o))

Shown == FramesOf(out)

RECURSIVE SumDur(_)
SumDur(s) == IF s = <<>> THEN 0 ELSE frames[Head(s)] + SumDur(Tail(s))

\* Whether the terminal's cursor is hidden after the writes o: the last
\* hide or show sequence decides.
RECURSIVE Flatten(_)
Flatten(o) == IF o = <<>> THEN <<>> ELSE Head(o).text \o Flatten(Tail(o))

RECURSIVE HiddenAfter(_, _)
HiddenAfter(s, hidden) ==
    IF s = <<>> THEN hidden
    ELSE HiddenAfter(Tail(s), IF Head(s) = HIDE_CURSOR THEN TRUE
                              ELSE IF Head(s) = SHOW_CURSOR THEN FALSE
                              ELSE hidden)

CursorHidden == HiddenAfter(Flatten(out), FALSE)

\* The positions inside the try block, lines 327-359.
BodyPcs == {"hide", "clear", "check", "for", "wait", "print", "advance"}
\* The positions inside the except clause, lines 361-365.
ExceptPcs == {"except1", "except2", "except3"}

InitPlay ==
    /\ pc = "hide"
    /\ frames \in SeqsUpTo(FrameDurations, MaxFrames)
    /\ idx = 0 /\ start_time = 0 /\ t = 0 /\ target_time = 0
    /\ clock \in {0, 20}
    /\ out = <<>>
    /\ outcome = "none"
    /\ resizeSignal = FALSE

\* line 329
HideCursor ==
    /\ pc = "hide"
    /\ out' = Append(out, Written(<<HIDE_CURSOR>>, 0))
    /\ pc' = "clear"
    /\ UNCHANGED <<frames, idx, start_time, t, target_time, clock, outcome, resizeSignal,
                   notPlay>>

\* line 332: the clear command writes to the same terminal
ClearScreen ==
    /\ pc = "clear"
    /\ out' = Append(out, Written(<<"clear">>, 0))
    /\ pc' = "check"
    /\ UNCHANGED <<frames, idx, start_time, t, target_time, clock, outcome, resizeSignal,
                   notPlay>>

\* lines 335-336
ReturnEmpty ==
    /\ pc = "check"
    /\ frames = <<>>
    /\ outcome' = "return"
    /\ pc' = "finally"
    /\ UNCHANGED <<frames, idx, start_time, t, target_time, clock, out, resizeSignal,
                   notPlay>>

\* lines 339-343
StartTiming ==
    /\ pc = "check"
    /\ frames # <<>>
    /\ start_time' = clock
    /\ t' = 0
    /\ pc' = "for"
    /\ UNCHANGED <<frames, idx, target_time, clock, out, outcome, resizeSignal,
                   notPlay>>

\* lines 346-347: the frame the for loop yields after frame i of n; the
\* while loop starts the for loop again after the last one.
\* (NextIdxStuck: the for loop is not started again and the last frame repeats.)
NextIdxStuck(i, n) == IF i < n THEN i + 1 ELSE n
NextIdx(i, n) == IF i < n THEN i + 1 ELSE 1

\* lines 347-349
NextFrame ==
    /\ pc = "for"
    /\ Len(Shown) < MaxWrites
    /\ idx' = NextIdx(idx, Len(frames))
    /\ target_time' = start_time + t
    /\ pc' = "wait"
    /\ UNCHANGED <<frames, start_time, t, clock, out, outcome, resizeSignal,
                   notPlay>>

\* line 352: the condition of the wait loop
\* (MustWaitInverted: the comparison turned around.)
MustWaitInverted(now, target) == now > target
MustWait(now, target) == now < target

\* lines 352-353: one turn of the wait loop
Sleep ==
    /\ pc = "wait"
    /\ MustWait(clock, target_time)
    /\ \E d \in Jumps : clock + d <= MaxClock * 20 /\ clock' = clock + d
    /\ UNCHANGED <<pc, frames, idx, start_time, t, target_time, out, outcome, resizeSignal,
                   notPlay>>

\* line 352: the wait loop ends
WaitOver ==
    /\ pc = "wait"
    /\ ~MustWait(clock, target_time)
    /\ pc' = "print"
    /\ UNCHANGED <<frames, idx, start_time, t, target_time, clock, out, outcome, resizeSignal,
                   notPlay>>

\* line 356
WriteFrame ==
    /\ pc = "print"
    /\ out' = Append(out, Written(<<ESCAPE_HOME>>, idx))
    /\ pc' = "advance"
    /\ UNCHANGED <<frames, idx, start_time, t, target_time, clock, outcome, resizeSignal,
                   notPlay>>

\* line 359
Advance ==
    /\ pc = "advance"
    /\ t' = t + frames[idx]
    /\ pc' = "for"
    /\ UNCHANGED <<frames, idx, start_time, target_time, clock, out, outcome, resizeSignal,
                   notPlay>>

\* Ctrl+C while the try block runs: control moves to line 361.
Interrupt ==
    /\ pc \in BodyPcs
    /\ pc' = "except1"
    /\ outcome' = "interrupted"
    /\ UNCHANGED <<frames, idx, start_time, t, target_time, clock, out, resizeSignal,
                   notPlay>>

\* lines 363-365, one print each
ExceptShow ==
    /\ pc = "except1"
    /\ out' = Append(out, Written(<<SHOW_CURSOR>>, 0))
    /\ pc' = "except2"
    /\ UNCHANGED <<frames, idx, start_time, t, target_time, clock, outcome, resizeSignal,
                   notPlay>>

ExceptReset ==
    /\ pc = "except2"
    /\ out' = Append(out, Written(<<RESET>>, 0))
    /\ pc' = "except3"
    /\ UNCHANGED <<frames, idx, start_time, t, target_time, clock, outcome, resizeSignal,
                   notPlay>>

ExceptMessage ==
    /\ pc = "except3"
    /\ out' = Append(out, Written(<<"\n", "ESC[91m", "Animacion detenida", RESET, "\n">>, 0))
    /\ pc' = "finally"
    /\ UNCHANGED <<frames, idx, start_time, t, target_time, clock, outcome, resizeSignal,
                   notPlay>>

\* An exception the except clause does not catch, raised in the try block
\* (an element of frames that is no pair, line 347) or a second Ctrl+C while
\* the except clause runs: the finally clause runs and the exception leaves
\* the function.
Propagate ==
    /\ \/ pc = "for"
       \/ pc \in ExceptPcs
    /\ outcome' = "raised"
    /\ pc' = "finally"
    /\ UNCHANGED <<frames, idx, start_time, t, target_time, clock, out, resizeSignal,
                   notPlay>>

\* lines 367-369.  The one print of the finally clause is taken as a whole:
\* no Ctrl+C is delivered between entering the clause and its print.
\* (FinallySkipped: the function left without the cleanup print.)
FinallySkipped ==
    /\ pc = "finally"
    /\ pc' = "exited"
    /\ UNCHANGED <<frames, idx, start_time, t, target_time, clock, out, outcome, resizeSignal,
                   notPlay>>

Finally ==
    /\ pc = "finally"
    /\ out' = Append(out, Written(<<SHOW_CURSOR, RESET, CLEAR, HOME>>, 0))
    /\ pc' = "exited"
    /\ UNCHANGED <<frames, idx, start_time, t, target_time, clock, outcome, resizeSignal,
                   notPlay>>

\* Time passes between two steps of the function.
Tick ==
    /\ pc \in BodyPcs
    /\ \E d \in Jumps : clock + d <= MaxClock * 20 /\ clock' = clock + d
    /\ UNCHANGED <<pc, frames, idx, start_time, t, target_time, out, outcome, resizeSignal,
                   notPlay>>

\* The terminal size monitor (setup_resize_handler, imported by
\* __main__.py lines 4-11) detects a change of the terminal's size and
\* raises the resize signal.
SetResize ==
    /\ pc \in BodyPcs
    /\ ~resizeSignal
    /\ resizeSignal' = TRUE
    /\ UNCHANGED <<pc, frames, idx, start_time, t, target_time, clock, out, outcome,
                   notPlay>>

NextPlay ==
    \/ HideCursor \/ ClearScreen \/ ReturnEmpty \/ StartTiming \/ NextFrame
    \/ Sleep \/ WaitOver \/ WriteFrame \/ Advance \/ Interrupt
    \/ ExceptShow \/ ExceptReset \/ ExceptMessage \/ Propagate \/ Finally
    \/ Tick \/ SetResize


(***************************************************************************)
(*                   set_style, pixel_to_ascii_color                       *)
(***************************************************************************)

\* The style tables, lines 45-49, one glyph per element, darkest first.
\* The block glyphs of line 49 are written by their code points.
SIMPLE ==
    << " ", ".", ":", "-", "=", "+", "*", "#", "%", "@" >>

EXTENDED ==
    << " ", ".", "`", "'", "^", "\"", ",", ":", ";", "I", "l", "!",
       "i", ">", "<", "~", "+", "_", "-", "?", "]", "[", "}", "{",
       "1", ")", "(", "|", "\\", "/", "t", "f", "j", "r", "x", "n",
       "u", "v", "c", "z", "X", "Y", "U", "J", "C", "L", "Q", "0",
       "O", "Z", "m", "w", "q", "p", "d", "b", "k", "h", "a", "o",
       "*", "#", "M", "W", "&", "8", "%", "B", "@", "$" >>

ULTRAEXTENDED ==
    << " ", " ", "`", "^", "'", ".", ",", ":", ";", "I", "l", "!",
       "i", "~", "+", "-", "_", "?", "]", "[", "}", "{", "1", ")",
       "(", "|", "\\", "/", "t", "f", "j", "r", "x", "n", "u", "v",
       "c", "z", "X", "Y", "U", "J", "C", "L", "Q", "0", "O", "Z",
       "m", "w", "q", "p", "d", "b", "k", "h", "a", "o", "*", "#",
       "M", "W", "&", "8", "%", "B", "@", "$", "@" >>

BLOCKS ==
    << " ", "U+2591", "U+2592", "U+2593", "U+2588" >>

\* The registry, lines 44-50: a dict from style name to table.
ASCII_CHARS ==
    [name \in {"simple", "extended", "ultraextended", "blocks"} |->
        CASE name = "simple" -> SIMPLE
          [] name = "extended" -> EXTENDED
          [] name = "ultraextended" -> ULTRAEXTENDED
          [] name = "blocks" -> BLOCKS]

\* The names --style accepts, __main__.py line 23.
StyleChoices ==
    {"simple", "extended", "ultraextended", "gradient", "blocks", "shades",
     "symbols", "mono_simple"}

\* The pixels pixel_to_ascii_color is called with: RGB or RGBA tuples.
Channels == {0, 64, 128, 255}
Alphas   == {0, 49, 50, 255}
Pixels ==
    {<<r, g, b>> : r \in Channels, g \in Channels, b \in Channels}
    \cup {<<255, 0, 0, a>> : a \in Alphas}
    \cup {<<0, 64, 255, a>> : a \in Alphas}

\* No call of pixel_to_ascii_color yet.
NoGlyph == [raised |-> "none", text |-> "", char_idx |-> -1]

InitStyle ==
    /\ style_name = ""
    /\ ASCIICHARS = <<>>
    /\ pixel = <<>>
    /\ glyph = NoGlyph

\* lines 70-73: the table set_style assigns to ASCIICHARS
StyleTable(name) ==
    IF name \in DOMAIN ASCII_CHARS THEN ASCII_CHARS[name] ELSE ASCII_CHARS["simple"]

\* set_style(name), lines 52-73.  The observation of the last
\* pixel_to_ascii_color call is dropped: it was made under the style before.
SetStyle ==
    \E name \in StyleChoices :
        /\ style_name' = name
        /\ ASCIICHARS' = StyleTable(name)
        /\ pixel' = <<>>
        /\ glyph' = NoGlyph
        /\ UNCHANGED notStyle

\* lines 181-186: the pixel counts as transparent
Transparent(p) == Len(p) = 4 /\ p[4] < 50

\* line 196: the true-colour escape, the glyph and the reset
Coloured(p, char) ==
    "ESC[38;2;" \o ToString(p[1]) \o ";" \o ToString(p[2]) \o ";"
        \o ToString(p[3]) \o "m" \o char \o RESET

\* line 192: len(ASCII_CHARS), the number of keys of the registry dict
LenASCII_CHARS == Cardinality(DOMAIN ASCII_CHARS)

\* lines 189-192: brightness = 0.299 r + 0.587 g + 0.114 b and
\* char_idx = min(int(brightness * len(ASCII_CHARS) / 256), len(ASCII_CHARS) - 1);
\* the exact value of brightness * n / 256 is (299 r + 587 g + 114 b) n / 256000.
CharIdx(p) ==
    {Min(i, LenASCII_CHARS - 1) :
        i \in IntOfFloat((299 * p[1] + 587 * p[2] + 114 * p[3]) * LenASCII_CHARS, 256000)}

\* pixel_to_ascii_color(p), lines 162-196.  Line 193 subscripts ASCII_CHARS,
\* the registry dict of lines 44-50, with the integer char_idx.  The keys of
\* the dict are the four style names, no integer is one of them, and the
\* subscript raises KeyError for every char_idx: line 196 is not reached, and
\* ASCIICHARS, the table set_style chose, is not read.
PixelToAsciiColor ==
    \E p \in Pixels :
        /\ pixel' = p
        /\ IF Transparent(p)
           THEN glyph' = [raised |-> "none", text |-> " ", char_idx |-> -1]
           ELSE \E i \in CharIdx(p) :
                  glyph' = [raised |-> "KeyError", text |-> "", char_idx |-> i]
        /\ UNCHANGED <<style_name, ASCIICHARS, notStyle>>

NextStyle == SetStyle \/ PixelToAsciiColor


(***************************************************************************)
(*                             scale_image                                 *)
(***************************************************************************)

\* Bounds of the model of the scaler: source sides and terminal sides.
MaxDim  == 9
MaxTerm == 9

\* ASPECT_RATIO_FACTOR, line 38: 0.48 = 12 / 25
ASPECT_NUM == 12
ASPECT_DEN == 25

\* get_max_terminal_size(), lines 90-91, for a terminal of the given columns
\* and lines: the bounds the callers (lines 270 and 389) hand to scale_image
GetMaxTerminalSize(columns, lines) == <<Max(1, columns), Max(1, lines - 1)>>

InitScale ==
    /\ image_size \in (1..MaxDim) \X (1..MaxDim)
    /\ max_size \in {GetMaxTerminalSize(columns, lines) :
                        columns \in 0..MaxTerm, lines \in 0..(MaxTerm + 1)}
    /\ target_size = <<0, 0>>
    /\ second_pass = FALSE
    /\ scaled = FALSE

\* lines 116 and 122: int(target_width * aspect_ratio * ASPECT_RATIO_FACTOR),
\* with aspect_ratio = height / width
HeightFor(tw, w, h) == IntOfFloat(tw * h * ASPECT_NUM, w * ASPECT_DEN)

\* line 121: int(new_height / (aspect_ratio * ASPECT_RATIO_FACTOR))
WidthFor(nh, w, h) == IntOfFloat(nh * w * ASPECT_DEN, h * ASPECT_NUM)

\* lines 114-116, the first pass: the <<target_width, target_height>> it may
\* compute
FirstPass(w, h, mw, mh) ==
    {<<Min(w, mw), Min(x, mh)>> : x \in HeightFor(Min(w, mw), w, h)}

\* lines 120-122, the second pass
\* (SecondPassUnclamped: line 121 without its min(..., max_width).)
SecondPassUnclamped(w, h, mw, mh) ==
    UNION {{<<tw, Min(x, mh)>> : x \in HeightFor(tw, w, h)} :
              tw \in WidthFor(Min(mh, h), w, h)}

SecondPass(w, h, mw, mh) ==
    UNION {{<<Min(tw, mw), Min(x, mh)>> : x \in HeightFor(Min(tw, mw), w, h)} :
              tw \in WidthFor(Min(mh, h), w, h)}

\* scale_image(image, max_width, max_height), lines 111-124: the size handed
\* to image.resize
ScaleImage ==
    /\ ~scaled
    /\ LET w == image_size[1]  h == image_size[2]
           mw == max_size[1]   mh == max_size[2]
       IN  \E first \in FirstPass(w, h, mw, mh) :
             IF first[2] < mh
             THEN /\ target_size' \in SecondPass(w, h, mw, mh)
                  /\ second_pass' = TRUE
             ELSE /\ target_size' = first
                  /\ second_pass' = FALSE
    /\ scaled' = TRUE
    /\ UNCHANGED <<image_size, max_size, notScale>>

NextScale == ScaleImage

(***************************************************************************)
(*                  gif_to_ascii_frames: frame durations                   *)
(***************************************************************************)

\* Bound of the model: the frames of the GIF.
MaxGifFrames == 3

\* FRAME_DELAY, line 29, in ms: int(FRAME_DELAY * 1000) is 60
FRAME_DELAY_MS == 60
\* the floor of line 291, 0.06 s, in ms
MIN_DURATION_MS == 60

\* The 'duration' entries (ms) of the frames' metadata.
MetaDurations == {-40, 0, 59, 60, 61, 100}

\* frame.info: a dict that may or may not hold the key 'duration'.
Infos ==
    {[version |-> "GIF89a"]}
    \cup {[version |-> "GIF89a", duration |-> d] : d \in MetaDurations}

InitGif ==
    /\ gif_info \in SeqsUpTo(Infos, MaxGifFrames) \ {<<>>}
    /\ ascii_frames = <<>>
    /\ total_duration = 0

\* dict.get(key, default)
Get(info, key, default) == IF key \in DOMAIN info THEN info[key] ELSE default

\* lines 290-291: duration_sec, in ms
\* (DurationUnfloored: line 291 without its max(..., 0.06).)
DurationUnfloored(info) == Get(info, "duration", FRAME_DELAY_MS)
Duration(info) == Max(Get(info, "duration", FRAME_DELAY_MS), MIN_DURATION_MS)

\* lines 274-295: one turn of the loop over the frames
GifFrame ==
    /\ Len(ascii_frames) < Len(gif_info)
    /\ LET duration_sec == Duration(gif_info[Len(ascii_frames) + 1])
       IN  /\ total_duration' = total_duration + duration_sec
           /\ ascii_frames' = Append(ascii_frames, duration_sec)
    /\ UNCHANGED <<gif_info, notGif>>

NextGif == GifFrame

(***************************************************************************)
(*                          remove_background                              *)
(***************************************************************************)

\* Bound of the model: the pixels of the image.
MaxPixels == 2

\* BG_COLOR and BG_THRESHOLD, lines 32 and 35: the defaults
BG_COLOR == <<255, 255, 255>>
BG_THRESHOLD == 50

\* Colours at distance 0, 49, 50 and 51 from white, and at 0, 49 and 50 from black.
BgColours ==
    {<<255, 255, 255>>, <<206, 255, 255>>, <<240, 240, 235>>, <<255, 204, 255>>,
     <<0, 0, 0>>, <<30, 10, 9>>, <<0, 50, 0>>}

BgPixels(mode) ==
    IF mode = "RGB" THEN BgColours
    ELSE {<<c[1], c[2], c[3], a>> : c \in BgColours, a \in {0, 255}}

InitBg ==
    /\ bg_mode \in {"RGB", "RGBA"}
    /\ bg_image \in SeqsUpTo(BgPixels(bg_mode), MaxPixels) \ {<<>>}
    /\ bg_color \in {BG_COLOR, <<0, 0, 0>>}
    /\ threshold \in {0, BG_THRESHOLD, BG_THRESHOLD + 1}
    /\ bg_result = <<>>
    /\ bg_done = FALSE

\* line 144: image.convert("RGBA") gives a pixel without alpha the alpha 255
ConvertRGBA(p) == IF Len(p) = 4 THEN p ELSE <<p[1], p[2], p[3], 255>>

\* line 154
Distance(p, bg) == Abs(p[1] - bg[1]) + Abs(p[2] - bg[2]) + Abs(p[3] - bg[3])

\* lines 151-158: what the loop leaves at one pixel
\* (RemovedInclusive: line 157 with <= for <.)
RemovedInclusive(p, bg, thr) == IF Distance(p, bg) <= thr THEN <<0, 0, 0, 0>> ELSE p
Removed(p, bg, thr) == IF Distance(p, bg) < thr THEN <<0, 0, 0, 0>> ELSE p

\* remove_background(image, bg_color, threshold), lines 144-160
RemoveBackground ==
    /\ ~bg_done
    /\ bg_result' = [i \in DOMAIN bg_image |->
                        Removed(ConvertRGBA(bg_image[i]), bg_color, threshold)]
    /\ bg_done' = TRUE
    /\ UNCHANGED <<bg_image, bg_mode, bg_color, threshold, notBg>>

NextBg == RemoveBackground

(***************************************************************************)
(*                          The specifications                             *)
(***************************************************************************)

\* A component that is not running.
StyleIdle == style_name = "" /\ ASCIICHARS = <<>> /\ pixel = <<>> /\ glyph = NoGlyph
ScaleIdle ==
    /\ image_size = <<1, 1>> /\ max_size = <<1, 1>> /\ target_size = <<0, 0>>
    /\ second_pass = FALSE /\ scaled = FALSE
GifIdle == gif_info = <<>> /\ ascii_frames = <<>> /\ total_duration = 0
BgIdle ==
    /\ bg_image = <<>> /\ bg_mode = "RGB" /\ bg_color = BG_COLOR
    /\ threshold = BG_THRESHOLD /\ bg_result = <<>> /\ bg_done = FALSE

\* The player, the one component with a control state of its own.
Init == InitPlay /\ StyleIdle /\ ScaleIdle /\ GifIdle /\ BgIdle
Next == NextPlay
Spec == Init /\ [][Next]_vars

StyleInit == InitStyle /\ PlayIdle /\ ScaleIdle /\ GifIdle /\ BgIdle
SpecStyle == StyleInit /\ [][NextStyle]_vars

ScaleInit == InitScale /\ PlayIdle /\ StyleIdle /\ GifIdle /\ BgIdle
SpecScale == ScaleInit /\ [][NextScale]_vars

GifInit == InitGif /\ PlayIdle /\ StyleIdle /\ ScaleIdle /\ BgIdle
SpecGif == GifInit /\ [][NextGif]_vars

BgInit == InitBg /\ PlayIdle /\ StyleIdle /\ ScaleIdle /\ GifIdle
SpecBg == BgInit /\ [][NextBg]_vars


(***************************************************************************)
(*                              The claims                                 *)
(***************************************************************************)

\* C1: when the resize signal is set, the player notices it at the next
\* frame boundary: from the head of the for loop it goes nowhere but out of
\* the function, returning with the signal cleared, and starts no frame.
\* (Ctrl+C and an exception may still end the function there.)
C1_ResizeReturnsAtFrameBoundary ==
    [][(pc = "for" /\ resizeSignal /\ pc' # pc /\ outcome' \notin {"interrupted", "raised"})
          => (pc' = "finally" /\ outcome' = "return" /\ ~resizeSignal')]_vars

C8_FramesInSequenceOrder ==
    \A k \in 1..Len(Shown) : Shown[k] = ((k - 1) % Len(frames)) + 1

\* C8, its case: a sequence of several frames was played through and
\* wrapped to its first frame.
C8_Witness ==
    /\ Len(frames) >= 2
    /\ Len(Shown) > Len(frames)

\* C9: a frame is written only with the clock at or past start_time plus the
\* durations of all frames written before it, and t is that sum: advanced
\* by the written frame's duration after each write, never reset, never
\* adjusted for lateness.
C9_WriteNotBeforeTarget ==
    /\ pc = "print" => clock >= start_time + SumDur(Shown)
    /\ pc \in {"for", "wait", "print"} => t = SumDur(Shown)
    /\ pc = "advance" => t + frames[idx] = SumDur(Shown)
    /\ pc \in {"wait", "print", "advance"} => target_time = start_time + t

\* C9, its case: a frame of a later pass is about to be written late, after
\* frames were waited for.
C9_Witness ==
    /\ pc = "print"
    /\ Len(Shown) > Len(frames)
    /\ clock > start_time + t
    /\ start_time > 0


\* C3: after set_style(name) the active table is the table of that name, or
\* the "simple" table when the registry has no such name, and every glyph
\* pixel_to_ascii_color then produces for an opaque pixel is a character of
\* that table.
C3_GlyphsFromChosenTable ==
    style_name # "" =>
        /\ ASCIICHARS = IF style_name \in {"simple", "extended", "ultraextended", "blocks"}
                        THEN ASCII_CHARS[style_name]
                        ELSE SIMPLE
        /\ (pixel # <<>> /\ ~Transparent(pixel)) =>
              /\ glyph.raised = "none"
              /\ \E c \in Range(ASCIICHARS) : glyph.text = Coloured(pixel, c)

\* C4: for an opaque pixel, pixel_to_ascii_color selects the glyph of the
\* active table at index min(floor((0.299 R + 0.587 G + 0.114 B) * len / 256),
\* len - 1), which lies within the table; with the "simple" table the pixel
\* (255, 0, 0) gives index 2 and the output ESC[38;2;255;0;0m:ESC[0m.
C4_GlyphAtLuminanceIndex ==
    (ASCIICHARS # <<>> /\ pixel # <<>> /\ ~Transparent(pixel)) =>
        LET n == Len(ASCIICHARS)
            index == Min(((299 * pixel[1] + 587 * pixel[2] + 114 * pixel[3]) * n) \div 256000,
                         n - 1)
        IN  /\ index \in 0..(n - 1)
            /\ glyph.raised = "none"
            /\ glyph.char_idx = index
            /\ glyph.text = Coloured(pixel, ASCIICHARS[index + 1])
            /\ (pixel = <<255, 0, 0>> /\ ASCIICHARS = SIMPLE) =>
                  (index = 2 /\ glyph.text = "ESC[38;2;255;0;0m:ESC[0m")

\* C5: the size scale_image resizes to is within the bounds, whether or not
\* the second pass ran.
C5_ScaledWithinBounds ==
    scaled => (target_size[1] <= max_size[1] /\ target_size[2] <= max_size[2])

\* C5, its case: the second pass ran on an image wider than the terminal and
\* its width was cut to the bound.
C5_Witness ==
    /\ scaled
    /\ second_pass
    /\ image_size[1] > max_size[1]
    /\ target_size[1] = max_size[1]
    /\ target_size[2] >= 1

\* C6: every duration gif_to_ascii_frames produces is at least 0.06 s (60 ms).
C6_DurationAtLeastMinimum ==
    \A i \in DOMAIN ascii_frames : ascii_frames[i] >= 60

\* C6, its case: a whole GIF was processed whose frames carry a duration of
\* 0, a negative duration and no duration.
C6_Witness ==
    /\ Len(ascii_frames) = Len(gif_info)
    /\ \E i \in DOMAIN gif_info : "duration" \notin DOMAIN gif_info[i]
    /\ \E i \in DOMAIN gif_info :
          "duration" \in DOMAIN gif_info[i] /\ gif_info[i].duration = 0
    /\ \E i \in DOMAIN gif_info :
          "duration" \in DOMAIN gif_info[i] /\ gif_info[i].duration < 0

\* C7: remove_background turns every pixel whose Manhattan distance to
\* bg_color is under the threshold into (0, 0, 0, 0) and returns every other
\* pixel, one at exactly the threshold included, with its R, G, B and alpha
\* (255 for an image that had no alpha).
C7_BackgroundRemoved ==
    bg_done =>
        /\ Len(bg_result) = Len(bg_image)
        /\ \A i \in DOMAIN bg_image :
              LET p == bg_image[i]
                  d == Abs(p[1] - bg_color[1]) + Abs(p[2] - bg_color[2])
                         + Abs(p[3] - bg_color[3])
              IN  IF d < threshold
                  THEN bg_result[i] = <<0, 0, 0, 0>>
                  ELSE bg_result[i] =
                         <<p[1], p[2], p[3], IF bg_mode = "RGBA" THEN p[4] ELSE 255>>

\* C7, its case: an image with a pixel at exactly the threshold, kept, and a
\* pixel one step nearer, removed.
C7_Witness ==
    /\ bg_done
    /\ threshold > 0
    /\ \E i \in DOMAIN bg_image :
          /\ Distance(bg_image[i], bg_color) = threshold
          /\ bg_result[i] # <<0, 0, 0, 0>>
    /\ \E i \in DOMAIN bg_image :
          /\ Distance(bg_image[i], bg_color) = threshold - 1
          /\ bg_result[i] = <<0, 0, 0, 0>>

\* C10: scale_image does not enlarge an image that fits the bounds.
C10_NoEnlargement ==
    (scaled /\ image_size[1] <= max_size[1] /\ image_size[2] <= max_size[2]) =>
        (target_size[1] <= image_size[1] /\ target_size[2] <= image_size[2])

\* C11: for a source of at least 1 x 1 and the usable size of any terminal
\* (at least 1 x 1), the size scale_image hands to resize has a width and a
\* height of at least 1.
C11_NonDegenerateSize ==
    (scaled /\ image_size[1] >= 1 /\ image_size[2] >= 1
            /\ max_size[1] >= 1 /\ max_size[2] >= 1) =>
        (target_size[1] >= 1 /\ target_size[2] >= 1)


=============================================================================
